---- MODULE Spec2Model ----
(***************************************************************************)
(* A model of pawslib: ec2.split_net_across_zones,                         *)
(* ec2.launch_ami_like_instance and var.alphanum.  Each function is one    *)
(* call that runs from "idle" to "returned" or "raised"; the steps are the *)
(* places where the code talks to boto3 or can raise.                      *)
(***************************************************************************)
EXTENDS Integers, Sequences, FiniteSets, TLC

VARIABLES
    pc,          \* position of the running call
    net,         \* split_net_across_zones: the net argument, <<o1,o2,o3,o4,prefixlen>>
    subnets,     \* split_net_across_zones: the subnets argument, [type, val]
    b3_session,  \* TRUE when a boto3 Session was passed
    calls,       \* the boto3 calls made so far, in order
    azs,         \* split_net_across_zones: zone names read from the directory
    snets,       \* split_net_across_zones: list of [addr, plen] networks
    index,       \* split_net_across_zones: enumerate() position of the loop
    net_split,   \* split_net_across_zones: the list being built / returned
    exception,   \* the exception that ended the call, "" when none
    copy_tags,   \* launch_ami_like_instance: the copy_tags argument
    model_tags,  \* launch_ami_like_instance: ec2_model.tags
    tag_spec,    \* launch_ami_like_instance: Tags of tag_spec[0]
    sent_tags,   \* launch_ami_like_instance: TagSpecifications given to create_instances
    module,      \* alphanum: which file's alphanum runs
    input,       \* alphanum: the argument as passed
    string       \* alphanum: the local variable string

vars == <<pc, net, subnets, b3_session, calls, azs, snets, index, net_split,
          exception, copy_tags, model_tags, tag_spec, sent_tags, module, input,
          string>>

splitVars == <<net, subnets, azs, snets, index, net_split>>
launchVars == <<copy_tags, model_tags, tag_spec, sent_tags>>
alphaVars == <<module, input, string>>

(***************************************************************************)
(* Bounds of the model.                                                    *)
(***************************************************************************)
MaxHostBits == 3    \* networks as large as /29
MaxAddr == 8        \* last octet of the net argument
MaxSubnets == 16    \* largest subnets argument
MaxZones == 3       \* longest zone list
MaxTags == 2        \* longest tag list
MaxLen == 4         \* longest alphanum argument

IPV4LENGTH == 32    \* ipaddress: max_prefixlen of an IPv4 network

ZoneNames == {"a", "b", "c"}

RECURSIVE Pow2(_)
Pow2(n) == IF n = 0 THEN 1 ELSE 2 * Pow2(n - 1)

SeqsUpTo(S, n) == UNION {[1..k -> S] : k \in 0..n}

(***************************************************************************)
(* Python integers.                                                        *)
(***************************************************************************)
\* a & b on Python ints (two's complement, unbounded): computed on 8 bits,
\* which hold every value the model passes.
RECURSIVE AndNat(_, _)
AndNat(a, b) ==
    IF a = 0 \/ b = 0 THEN 0
    ELSE 2 * AndNat(a \div 2, b \div 2) + (IF a % 2 = 1 /\ b % 2 = 1 THEN 1 ELSE 0)

BitAnd(a, b) ==
    LET W == 256
        r == AndNat(a % W, b % W)
    IN  IF r >= W \div 2 THEN r - W ELSE r

\* int(log(n, 2)) for n a power of two (math.log is exact on 2^0..2^128).
RECURSIVE Log2(_)
Log2(n) == IF n <= 1 THEN 0 ELSE 1 + Log2(n \div 2)

(***************************************************************************)
(* ipaddress.ip_network and IPv4Network.subnets.                           *)
(***************************************************************************)
\* The values the net argument is drawn from: dotted quad and prefix length.
NetArgs ==
    {<<10, 0, 0, d, p>> : d \in 0..MaxAddr,
                          p \in (IPV4LENGTH - MaxHostBits)..(IPV4LENGTH + 1)}

HostMask(plen) == Pow2(IPV4LENGTH - plen) - 1

AddrOf(n) == ((n[1] * 256 + n[2]) * 256 + n[3]) * 256 + n[4]

\* ip_network(net) raises ValueError on a bad octet, a bad prefix length or
\* host bits set (strict=True).
ip_network_ok(n) ==
    /\ \A i \in 1..4 : n[i] \in 0..255
    /\ n[5] \in 0..IPV4LENGTH
    /\ AddrOf(n) % (HostMask(n[5]) + 1) = 0

ip_network(n) == [addr |-> AddrOf(n), plen |-> n[5]]

\* subnets(prefixlen_diff) raises ValueError when the new prefix is too long,
\* unless the network is a single address.
subnets_ok(nw, prefixlen_diff) ==
    \/ nw.plen = IPV4LENGTH
    \/ (prefixlen_diff >= 0 /\ nw.plen + prefixlen_diff <= IPV4LENGTH)

\* subnets_of with the end of the range one step short: the last block is lost.
subnets_of_short(nw, prefixlen_diff) ==
    IF nw.plen = IPV4LENGTH THEN <<nw>>
    ELSE LET new_prefixlen == nw.plen + prefixlen_diff
             step == (HostMask(nw.plen) + 1) \div Pow2(prefixlen_diff)
             count == (HostMask(nw.plen) + 1) \div step
         IN  [i \in 1..(IF count > 1 THEN count - 1 ELSE count) |->
                 [addr |-> nw.addr + (i - 1) * step, plen |-> new_prefixlen]]

subnets_of(nw, prefixlen_diff) ==
    IF nw.plen = IPV4LENGTH THEN <<nw>>
    ELSE LET new_prefixlen == nw.plen + prefixlen_diff
             step == (HostMask(nw.plen) + 1) \div Pow2(prefixlen_diff)
             count == (HostMask(nw.plen) + 1) \div step
         IN  [i \in 1..count |->
                 [addr |-> nw.addr + (i - 1) * step, plen |-> new_prefixlen]]

\* subnet.with_prefixlen: '<dotted quad>/<prefixlen>'
with_prefixlen(nw) ==
    <<nw.addr \div 16777216, (nw.addr \div 65536) % 256,
      (nw.addr \div 256) % 256, nw.addr % 256, nw.plen>>

(***************************************************************************)
(* split_net_across_zones                                                  *)
(***************************************************************************)
SubnetsArgs ==
    [type : {"int", "float", "bool"}, val : (-2)..MaxSubnets]
        \ {a \in [type : {"bool"}, val : (-2)..MaxSubnets] : a.val \notin {0, 1}}

\* The operand types of subnets & (subnets - 1) have no & : TypeError.
check_raises_TypeError(s) == s.type = "float"

\* not subnets & (subnets - 1) and subnets and type(subnets) is int
check_passes(s) ==
    /\ BitAnd(s.val, s.val - 1) = 0
    /\ s.val # 0
    /\ s.type = "int"

MsgPowerOf2 == "ValueError: Number of subnets must be a power of 2"
MsgTypeError == "TypeError: unsupported operand type(s) for &"
MsgNetwork == "ValueError: ipaddress"
MsgZeroDiv == "ZeroDivisionError: integer division or modulo by zero"
MsgKeyError == "KeyError: 'CopyTags'"
MsgNoneTags == "TypeError: 'NoneType'"
MsgClientError == "ClientError"

NoCopyTags ==
    [hasCopyTags |-> FALSE, CopyTags |-> FALSE, hasSetTags |-> FALSE,
     SetTags |-> <<>>, hasOther |-> FALSE]
NoModelTags == [isNone |-> TRUE, list |-> <<>>]

Init ==
    /\ pc = "idle"
    /\ net = <<0, 0, 0, 0, 0>>
    /\ subnets = [type |-> "int", val |-> 4]
    /\ b3_session = FALSE
    /\ calls = <<>>
    /\ azs = <<>>
    /\ snets = <<>>
    /\ index = 0
    /\ net_split = <<>>
    /\ exception = ""
    /\ copy_tags = NoCopyTags
    /\ model_tags = NoModelTags
    /\ tag_spec = <<>>
    /\ sent_tags = <<>>
    /\ module = ""
    /\ input = <<>>
    /\ string = <<>>

Raise(at, msg) == pc' = at /\ exception' = msg

\* The call: split_net_across_zones(net, region, subnets, b3_session)
split_net_across_zones ==
    /\ pc = "idle"
    /\ \E n \in NetArgs, s \in SubnetsArgs, b \in BOOLEAN :
          /\ net' = n
          /\ subnets' = s
          /\ b3_session' = b
    /\ pc' = "split_check"
    /\ UNCHANGED <<calls, azs, snets, index, net_split, exception>>
    /\ UNCHANGED launchVars /\ UNCHANGED alphaVars

\* CheckSubnets placed after the client is created.
CheckSubnets_late ==
    /\ pc = "split_check"
    /\ calls' = Append(calls, IF b3_session THEN "b3_session.client"
                              ELSE "boto3.client")
    /\ IF check_raises_TypeError(subnets) THEN Raise("split_raised", MsgTypeError)
       ELSE IF ~check_passes(subnets) THEN Raise("split_raised", MsgPowerOf2)
       ELSE pc' = "split_client" /\ UNCHANGED exception
    /\ UNCHANGED b3_session
    /\ UNCHANGED splitVars /\ UNCHANGED launchVars /\ UNCHANGED alphaVars

\* Lines 134-135: the power-of-two check.
CheckSubnets ==
    /\ pc = "split_check"
    /\ IF check_raises_TypeError(subnets) THEN Raise("split_raised", MsgTypeError)
       ELSE IF ~check_passes(subnets) THEN Raise("split_raised", MsgPowerOf2)
       ELSE pc' = "split_client" /\ UNCHANGED exception
    /\ UNCHANGED <<b3_session, calls>>
    /\ UNCHANGED splitVars /\ UNCHANGED launchVars /\ UNCHANGED alphaVars

\* Lines 136-139: the ec2 client, from the session or from boto3.
CreateClient ==
    /\ pc = "split_client"
    /\ calls' = Append(calls, IF b3_session THEN "b3_session.client"
                              ELSE "boto3.client")
    /\ pc' = "split_describe"
    /\ UNCHANGED <<b3_session, exception>>
    /\ UNCHANGED splitVars /\ UNCHANGED launchVars /\ UNCHANGED alphaVars

\* Lines 140-142: read the zone names; an error of the call propagates.
DescribeZones ==
    /\ pc = "split_describe"
    /\ calls' = Append(calls, "describe_availability_zones")
    /\ \/ /\ \E zs \in SeqsUpTo(ZoneNames, MaxZones) : azs' = zs
          /\ pc' = "split_subnets"
          /\ UNCHANGED exception
       \/ /\ Raise("split_raised", MsgClientError)
          /\ UNCHANGED azs
    /\ UNCHANGED <<b3_session, net, subnets, snets, index, net_split>>
    /\ UNCHANGED launchVars /\ UNCHANGED alphaVars

\* Lines 143-144: list(ip_network(net).subnets(prefixlen_diff=int(log(subnets, 2))))
ComputeSubnets ==
    /\ pc = "split_subnets"
    /\ LET diff == Log2(subnets.val)
       IN  IF ip_network_ok(net) /\ subnets_ok(ip_network(net), diff)
           THEN /\ snets' = subnets_of(ip_network(net), diff)
                /\ pc' = "split_loop"
                /\ UNCHANGED exception
           ELSE /\ Raise("split_raised", MsgNetwork)
                /\ UNCHANGED snets
    /\ index' = 0
    /\ net_split' = <<>>
    /\ UNCHANGED <<b3_session, calls, net, subnets, azs>>
    /\ UNCHANGED launchVars /\ UNCHANGED alphaVars

\* zone_for without the modulo: positions past the list get the last zone.
zone_for_clamped(i) == azs[IF i < Len(azs) THEN i + 1 ELSE Len(azs)]

\* Line 146: azs[index % len(azs)]
zone_for(i) == azs[(i % Len(azs)) + 1]

\* Lines 145-147: one iteration of the loop over enumerate(snets).
AssignZone ==
    /\ pc = "split_loop"
    /\ index < Len(snets)
    /\ IF Len(azs) = 0
       THEN /\ Raise("split_raised", MsgZeroDiv)
            /\ UNCHANGED <<index, net_split>>
       ELSE /\ net_split' = Append(net_split,
                   [cidr |-> with_prefixlen(snets[index + 1]), az |-> zone_for(index)])
            /\ index' = index + 1
            /\ UNCHANGED <<pc, exception>>
    /\ UNCHANGED <<b3_session, calls, net, subnets, azs, snets>>
    /\ UNCHANGED launchVars /\ UNCHANGED alphaVars

\* Line 149: return net_split
SplitReturn ==
    /\ pc = "split_loop"
    /\ index = Len(snets)
    /\ pc' = "split_returned"
    /\ UNCHANGED <<b3_session, calls, exception>>
    /\ UNCHANGED splitVars /\ UNCHANGED launchVars /\ UNCHANGED alphaVars

(***************************************************************************)
(* launch_ami_like_instance                                                *)
(***************************************************************************)
TagKeys == {"Name", "Env"}
TagValues == {"v1", "v2"}
Tag == [Key : TagKeys, Value : TagValues]
TagLists == SeqsUpTo(Tag, MaxTags)

\* The copy_tags argument: a dictionary that may hold CopyTags, SetTags and
\* other keys.  The default {} is NoCopyTags.
CopyTagsArgs ==
    {c \in [hasCopyTags : BOOLEAN, CopyTags : BOOLEAN, hasSetTags : BOOLEAN,
            SetTags : TagLists, hasOther : BOOLEAN] :
        /\ (~c.hasCopyTags => ~c.CopyTags)
        /\ (~c.hasSetTags => c.SetTags = <<>>)}

\* ec2_model.tags: a list of tags, or None for an instance without tags.
ModelTagsValues ==
    {NoModelTags} \cup {[isNone |-> FALSE, list |-> l] : l \in TagLists}

\* Line 67: [tag["Key"] for tag in copy_tags["SetTags"]]
tag_keys_to_set(ct) == {ct.SetTags[i].Key : i \in 1..Len(ct.SetTags)}

\* Lines 66 and 72
tags_to_set(ct) == IF ct.hasSetTags THEN ct.SetTags ELSE <<>>

\* KeepTag that keeps every tag of the model.
KeepTag_all(ct, tag) == TRUE

\* Line 69: tag["Key"] not in tag_keys_to_set
KeepTag(ct, tag) == tag.Key \notin tag_keys_to_set(ct)

\* Lines 68-70 and 73
tags_to_copy(ct, mt) ==
    IF ct.hasSetTags
    THEN SelectSeq(mt.list, LAMBDA tag : KeepTag(ct, tag))
    ELSE mt.list

\* The call: launch_ami_like_instance(ami_id, model_id, count, copy_tags, b3_session)
\* model_tags is what the model instance carries when the call is made.
launch_ami_like_instance ==
    /\ pc = "idle"
    /\ \E ct \in CopyTagsArgs, mt \in ModelTagsValues, b \in BOOLEAN :
          /\ copy_tags' = ct
          /\ model_tags' = mt
          /\ b3_session' = b
    /\ pc' = "launch_resource"
    /\ UNCHANGED <<calls, exception, tag_spec, sent_tags>>
    /\ UNCHANGED splitVars /\ UNCHANGED alphaVars

\* Lines 59-63: the ec2 resource and the model instance.
CreateResource ==
    /\ pc = "launch_resource"
    /\ calls' = Append(calls, IF b3_session THEN "b3_session.resource"
                              ELSE "boto3.resource")
    /\ pc' = "launch_tags"
    /\ UNCHANGED <<b3_session, exception>>
    /\ UNCHANGED splitVars /\ UNCHANGED launchVars /\ UNCHANGED alphaVars

\* Lines 65-78: the tag specification.
BuildTags ==
    /\ pc = "launch_tags"
    /\ IF copy_tags.hasSetTags /\ model_tags.isNone
       THEN Raise("launch_raised", MsgNoneTags) /\ UNCHANGED tag_spec
       ELSE IF ~copy_tags.hasCopyTags
       THEN Raise("launch_raised", MsgKeyError) /\ UNCHANGED tag_spec
       ELSE IF copy_tags.CopyTags /\ model_tags.isNone
       THEN Raise("launch_raised", MsgNoneTags) /\ UNCHANGED tag_spec
       ELSE /\ tag_spec' = IF copy_tags.CopyTags
                           THEN tags_to_copy(copy_tags, model_tags)
                                    \o tags_to_set(copy_tags)
                           ELSE tags_to_set(copy_tags)
            /\ pc' = "launch_create"
            /\ UNCHANGED exception
    /\ UNCHANGED <<b3_session, calls, copy_tags, model_tags, sent_tags>>
    /\ UNCHANGED splitVars /\ UNCHANGED alphaVars

\* Lines 86-105: ec2.create_instances(..., TagSpecifications=tag_spec); an
\* error of the call propagates.
CreateInstances ==
    /\ pc = "launch_create"
    /\ calls' = Append(calls, "create_instances")
    /\ sent_tags' = tag_spec
    /\ \/ pc' = "launch_returned" /\ UNCHANGED exception
       \/ Raise("launch_raised", MsgClientError)
    /\ UNCHANGED <<b3_session, copy_tags, model_tags, tag_spec>>
    /\ UNCHANGED splitVars /\ UNCHANGED alphaVars

(***************************************************************************)
(* alphanum (src/var.py and src/src/pawslib/var.py)                        *)
(***************************************************************************)
Chars == {"a", "B", "1", "_", "!"}
StringArgs == SeqsUpTo(Chars, MaxLen)
Modules == {"var", "pawslib.var"}

\* A character that [\W_] does not match.
IsAlnum(c) == c \in {"a", "b", "A", "B", "1"}

\* str.upper and str.lower on one character
upper(c) == CASE c = "a" -> "A" [] c = "b" -> "B" [] OTHER -> c
lower(c) == CASE c = "A" -> "a" [] c = "B" -> "b" [] OTHER -> c

\* str.capitalize: first character upper-cased, the rest lower-cased
capitalize(s) ==
    [i \in 1..Len(s) |-> IF i = 1 THEN upper(s[i]) ELSE lower(s[i])]

\* re.search('[\W_]', string): the 1-based position of the first match, 0 for None
search(s) ==
    IF \A i \in 1..Len(s) : IsAlnum(s[i]) THEN 0
    ELSE CHOOSE i \in 1..Len(s) :
            ~IsAlnum(s[i]) /\ \A j \in 1..(i - 1) : IsAlnum(s[j])

\* Lines 22-27 of src/var.py: the string after one match at 1-based position p
rewrite_var(s, p) ==
    IF p = 1 THEN Tail(s)
    ELSE IF p = Len(s) THEN SubSeq(s, 1, Len(s) - 1)
    ELSE SubSeq(s, 1, p - 1) \o capitalize(SubSeq(s, p + 1, Len(s)))

\* Lines 22-27 of src/src/pawslib/var.py
rewrite_pawslib(s, p) ==
    IF p = 1 THEN Tail(s)
    ELSE IF p = Len(s) THEN SubSeq(s, 1, Len(s) - 1)
    ELSE SubSeq(s, 1, p - 1) \o <<upper(s[p + 1])>> \o SubSeq(s, p + 2, Len(s))

\* The call: alphanum(string)
alphanum ==
    /\ pc = "idle"
    /\ \E s \in StringArgs, m \in Modules :
          /\ input' = s
          /\ string' = s
          /\ module' = m
    /\ pc' = "alphanum_loop"
    /\ UNCHANGED <<b3_session, calls, exception>>
    /\ UNCHANGED splitVars /\ UNCHANGED launchVars

\* Lines 21-28: one iteration of the while loop.
AlphanumStep ==
    /\ pc = "alphanum_loop"
    /\ search(string) # 0
    /\ string' = IF module = "var" THEN rewrite_var(string, search(string))
                 ELSE rewrite_pawslib(string, search(string))
    /\ UNCHANGED <<pc, module, input, b3_session, calls, exception>>
    /\ UNCHANGED splitVars /\ UNCHANGED launchVars

\* Line 30: return string
AlphanumReturn ==
    /\ pc = "alphanum_loop"
    /\ search(string) = 0
    /\ pc' = "alphanum_returned"
    /\ UNCHANGED <<b3_session, calls, exception>>
    /\ UNCHANGED splitVars /\ UNCHANGED launchVars /\ UNCHANGED alphaVars

Next ==
    \/ split_net_across_zones
    \/ CheckSubnets
    \/ CreateClient
    \/ DescribeZones
    \/ ComputeSubnets
    \/ AssignZone
    \/ SplitReturn
    \/ launch_ami_like_instance
    \/ CreateResource
    \/ BuildTags
    \/ CreateInstances
    \/ alphanum
    \/ AlphanumStep
    \/ AlphanumReturn

Spec == Init /\ [][Next]_vars
(***************************************************************************)
(* Properties                                                              *)
(***************************************************************************)
\* The network a returned cidr string denotes.
ParseCidr(c) ==
    [addr |-> ((c[1] * 256 + c[2]) * 256 + c[3]) * 256 + c[4], plen |-> c[5]]

\* The addresses of a network.
AddressRange(nw) == nw.addr..(nw.addr + Pow2(IPV4LENGTH - nw.plen) - 1)

Returned(i) == ParseCidr(net_split[i].cidr)

\* A strictly positive power of two of integer type.
IsPowerOfTwoInt(s) ==
    s.type = "int" /\ \E k \in 0..(MaxSubnets + 1) : s.val = Pow2(k)

ExactLog2(n) == CHOOSE k \in 0..(MaxSubnets + 1) : Pow2(k) = n

\* C1: the sub-blocks returned by split_net_across_zones are equal-sized,
\* pairwise disjoint, and their union is the address range of net.
C1_Partition ==
    pc = "split_returned" =>
        /\ Len(net_split) >= 1
        /\ \A i, j \in 1..Len(net_split) :
              /\ Returned(i).plen = Returned(j).plen
              /\ i # j => AddressRange(Returned(i)) \cap AddressRange(Returned(j)) = {}
        /\ UNION {AddressRange(Returned(i)) : i \in 1..Len(net_split)}
              = AddressRange(ip_network(net))

C1_Witness ==
    /\ pc = "split_returned"
    /\ Len(net_split) = 4
    /\ subnets.val = 4

\* C2: the entry at zero-based position i, sub-blocks in ascending address
\* order, has az = zones[i mod len(zones)].
C2_ZoneCycle ==
    pc = "split_returned" =>
        /\ \A i \in 1..Len(net_split) :
              net_split[i].az = azs[((i - 1) % Len(azs)) + 1]
        /\ \A i \in 1..(Len(net_split) - 1) :
              Returned(i).addr < Returned(i + 1).addr

C2_Witness ==
    /\ pc = "split_returned"
    /\ Len(azs) = 3
    /\ Len(net_split) = 4
    /\ net_split[4].az = azs[1]
    /\ azs[1] # azs[2]

\* The subnets values the specification lists as rejected: 0, 3, 5, -2, 2.0.
C3_ListedValues ==
    {[type |-> "int", val |-> 0], [type |-> "int", val |-> 3],
     [type |-> "int", val |-> 5], [type |-> "int", val |-> -2],
     [type |-> "float", val |-> 2]}

\* C3: the subnets values 0, 3, 5, -2 and 2.0 all fail with the ValueError
\* 'Number of subnets must be a power of 2', and none yields a result.
C3_SameError ==
    (pc \in {"split_client", "split_describe", "split_subnets", "split_loop",
             "split_returned", "split_raised"} /\ subnets \in C3_ListedValues)
        => (pc = "split_raised" /\ exception = MsgPowerOf2)

\* C4: a call that ends with the power-of-two ValueError has made no
\* boto3 call: no client was created and no zone was read.
C4_NoCallBeforeCheck ==
    /\ (pc = "split_raised" /\ exception = MsgPowerOf2) => calls = <<>>
    /\ (pc = "split_check" \/ (pc = "split_raised" /\ ~IsPowerOfTwoInt(subnets)))
          => calls = <<>>

C4_Witness ==
    /\ pc = "split_raised"
    /\ exception = MsgPowerOf2
    /\ subnets = [type |-> "int", val |-> 3]

\* C5: every returned sub-block has prefix length
\* prefix_length(net) + log2(subnets).
C5_PrefixLength ==
    pc = "split_returned" =>
        \A i \in 1..Len(net_split) :
            Returned(i).plen = net[5] + ExactLog2(subnets.val)

\* C6: with an empty zone list the call ends with a NoZonesAvailable error,
\* not with the modulo-by-zero fault of the zone assignment.
C6_NoZonesAvailable ==
    (/\ pc \in {"split_raised", "split_returned"}
     /\ Len(calls) = 2
     /\ exception # MsgClientError
     /\ azs = <<>>
     /\ snets # <<>>)
        => (pc = "split_raised" /\ exception = "NoZonesAvailable")

\* The string the docstring of alphanum describes: characters that are not
\* a letter or digit deleted, the character after a deleted one upper-cased,
\* every other character unchanged.
RECURSIVE Described(_, _)
Described(s, afterDeleted) ==
    IF s = <<>> THEN <<>>
    ELSE IF ~IsAlnum(Head(s)) THEN Described(Tail(s), TRUE)
    ELSE <<IF afterDeleted THEN upper(Head(s)) ELSE Head(s)>>
             \o Described(Tail(s), FALSE)

\* C7: alphanum deletes every character that is not a letter or digit,
\* upper-cases the letter that followed each deleted character and leaves
\* every other character as it was.
C7_Alphanum ==
    pc = "alphanum_returned" => string = Described(input, FALSE)

RECURSIVE WithoutKeys(_, _)
WithoutKeys(tags, keys) ==
    IF tags = <<>> THEN <<>>
    ELSE (IF Head(tags).Key \in keys THEN <<>> ELSE <<Head(tags)>>)
             \o WithoutKeys(Tail(tags), keys)

CreateInstancesCalled ==
    calls # <<>> /\ calls[Len(calls)] = "create_instances"

\* C8: with CopyTags true the tags sent to create_instances are the model's
\* tags whose key is not in SetTags, followed by the SetTags entries; with
\* CopyTags false exactly the SetTags entries are sent.
C8_TagsSent ==
    CreateInstancesCalled =>
        LET S == copy_tags.SetTags
            K == {S[i].Key : i \in 1..Len(S)}
        IN  IF copy_tags.CopyTags
            THEN /\ sent_tags = WithoutKeys(model_tags.list, K) \o S
                 /\ \A i \in 1..Len(sent_tags) :
                       sent_tags[i].Key \in K =>
                           \E j \in 1..Len(S) : S[j] = sent_tags[i]
            ELSE sent_tags = S

C8_Witness ==
    /\ pc = "launch_returned"
    /\ copy_tags.CopyTags
    /\ Len(copy_tags.SetTags) = 1
    /\ Len(model_tags.list) = 2
    /\ model_tags.list[1].Key = copy_tags.SetTags[1].Key
    /\ model_tags.list[1].Value # copy_tags.SetTags[1].Value
    /\ model_tags.list[2].Key # copy_tags.SetTags[1].Key
    /\ Len(sent_tags) = 2

\* C9: copy_tags is optional: without a 'CopyTags' key the call still
\* reaches create_instances.
C9_CopyTagsOptional ==
    (/\ pc \in {"launch_raised", "launch_returned"}
     /\ ~copy_tags.hasCopyTags
     /\ ~model_tags.isNone)
        => CreateInstancesCalled
====
